---- MODULE Spec2Model ----
(***************************************************************************)
(* Model of the request routing core of ai-model-router: the chat          *)
(* completion handler (manual and cost-optimized mode), the budget         *)
(* service, the model selector and cost estimator, the response cache and  *)
(* the compare / batch fan-out services.                                   *)
(*                                                                         *)
(* Money is counted in units of 1e-8 USD (the precision every cost is      *)
(* rounded to), prices in units per 1M tokens.  Python None is modelled by *)
(* None (-1) for optional numbers and by "none" for optional strings.      *)
(***************************************************************************)
EXTENDS Integers, Sequences, FiniteSets, TLC

None == -1

(* ---------------------------- bounds ----------------------------------- *)
\* number of requests (chat, compare, batch) handled in one behaviour
MaxRequests == 2
\* number of requests that can be in flight at the same time
MaxInFlight == 1
\* number of worker processes serving requests side by side (SpecWorkers)
NumWorkers == 2

Slots == 1..MaxInFlight

Workers == 1..NumWorkers

Users == {"u1"}

(* ---------------------------- catalog ---------------------------------- *)
\* Rows of the models table joined with providers, in query order.
Catalog ==
  << [id |-> 1, model_id |-> "gpt-4o-mini", provider |-> "openai",
      input_price |-> 15000000, output_price |-> 60000000,
      is_active |-> TRUE, provider_active |-> TRUE],
     [id |-> 2, model_id |-> "deepseek-chat", provider |-> "deepseek",
      input_price |-> 28000000, output_price |-> 42000000,
      is_active |-> TRUE, provider_active |-> TRUE],
     [id |-> 3, model_id |-> "gemini-2.5-flash-lite", provider |-> "google",
      input_price |-> 10000000, output_price |-> 40000000,
      is_active |-> TRUE, provider_active |-> TRUE],
     [id |-> 4, model_id |-> "gpt-3.5-turbo", provider |-> "openai",
      input_price |-> 50000000, output_price |-> 150000000,
      is_active |-> FALSE, provider_active |-> TRUE],
     [id |-> 5, model_id |-> "mistral-small", provider |-> "mistral",
      input_price |-> 40000000, output_price |-> 200000000,
      is_active |-> TRUE, provider_active |-> TRUE],
     [id |-> 6, model_id |-> "claude-3-haiku", provider |-> "anthropic",
      input_price |-> 5000000, output_price |-> 10000000,
      is_active |-> TRUE, provider_active |-> FALSE] >>

CatalogById(id) == Catalog[CHOOSE i \in DOMAIN Catalog : Catalog[i].id = id]

ModelIds == {Catalog[i].model_id : i \in DOMAIN Catalog}

\* providers _send_to_provider has an adapter for
SupportedProviders == {"openai", "anthropic", "deepseek", "google"}

(* ---------------------------- rounding --------------------------------- *)
\* round-half-even of num/den for num >= 0 (Python round())
RoundHalfEven(num, den) ==
  LET q == num \div den
      r == num % den
  IN  IF 2 * r > den THEN q + 1
      ELSE IF 2 * r = den THEN q + (q % 2)
      ELSE q

TokensPerPrice == 1000000

\* round(x, 8) of (tokens / 1_000_000) * price, in units of 1e-8
Round8(tokens, price) == RoundHalfEven(tokens * price, TokensPerPrice)

\* round(x, 6) of an amount in units of 1e-8 (result in the same units)
Round6(amount) ==
  IF amount >= 0 THEN RoundHalfEven(amount, 100) * 100
  ELSE 0 - RoundHalfEven(0 - amount, 100) * 100

(* ---------------------------- cost calculator -------------------------- *)
calculate_cost(input_tokens, output_tokens, input_price_per_1m, output_price_per_1m) ==
  [ input_cost_usd  |-> Round8(input_tokens, input_price_per_1m),
    output_cost_usd |-> Round8(output_tokens, output_price_per_1m),
    total_cost_usd  |-> RoundHalfEven(input_tokens * input_price_per_1m
                                      + output_tokens * output_price_per_1m,
                                      TokensPerPrice) ]

(* ---------------------------- token estimator -------------------------- *)
\* len(encoding.encode(value)) for the strings that occur in requests
EncodeLen(value) ==
  CASE value = "user"    -> 1
    [] value = "system"  -> 1
    [] value = "Hello"   -> 1
    [] value = "Be brief" -> 2
    [] OTHER -> 1

RECURSIVE SumMessageTokens(_)
SumMessageTokens(messages) ==
  IF messages = << >> THEN 0
  ELSE 3 + EncodeLen(Head(messages).role) + EncodeLen(Head(messages).content)
         + SumMessageTokens(Tail(messages))

estimate_messages_tokens(messages) ==
  LET num_tokens == SumMessageTokens(messages) + 3
  IN  [ estimated_tokens |-> num_tokens,
        buffered_tokens  |-> (num_tokens * 115) \div 100 ]

estimate_cost(messages, input_price_per_1m, output_price_per_1m, expected_output_tokens) ==
  LET input_tokens  == estimate_messages_tokens(messages).buffered_tokens
      output_tokens == expected_output_tokens
  IN  [ estimated_input_tokens    |-> input_tokens,
        estimated_output_tokens   |-> output_tokens,
        estimated_input_cost_usd  |-> Round8(input_tokens, input_price_per_1m),
        estimated_output_cost_usd |-> Round8(output_tokens, output_price_per_1m),
        estimated_total_cost_usd  |-> RoundHalfEven(input_tokens * input_price_per_1m
                                                    + output_tokens * output_price_per_1m,
                                                    TokensPerPrice) ]

(* ---------------------------- model selector --------------------------- *)
\* the query without the test of Provider.is_active
QueryActiveModels_AnyProvider(provider_filter) ==
  SelectSeq(Catalog, LAMBDA m : /\ m.is_active
                                /\ (provider_filter = {} \/ m.provider \in provider_filter))

\* The join query of get_cheapest_model / get_ranked_models: active models of
\* active providers, restricted to provider_filter when it is non-empty.
QueryActiveModels(provider_filter) ==
  SelectSeq(Catalog, LAMBDA m : /\ m.is_active
                                /\ m.provider_active
                                /\ (provider_filter = {} \/ m.provider \in provider_filter))

ModelCost(m, messages, expected_output_tokens) ==
  [ model_id       |-> m.model_id,
    model_db_id    |-> m.id,
    provider_name  |-> m.provider,
    estimated_cost |-> estimate_cost(messages, m.input_price, m.output_price,
                                     expected_output_tokens).estimated_total_cost_usd ]

\* list.sort(key=estimated_cost): a stable sort, by insertion from the left
InsertByCost(x, s) ==
  LET k == Cardinality({i \in DOMAIN s : s[i].estimated_cost <= x.estimated_cost})
  IN  SubSeq(s, 1, k) \o <<x>> \o SubSeq(s, k + 1, Len(s))

RECURSIVE SortByCostUpTo(_, _)
SortByCostUpTo(seq, n) ==
  IF n = 0 THEN << >> ELSE InsertByCost(seq[n], SortByCostUpTo(seq, n - 1))

SortByCost(seq) == SortByCostUpTo(seq, Len(seq))

RECURSIVE MapModelCosts(_, _, _)
MapModelCosts(models, messages, expected_output_tokens) ==
  IF models = << >> THEN << >>
  ELSE <<ModelCost(Head(models), messages, expected_output_tokens)>>
       \o MapModelCosts(Tail(models), messages, expected_output_tokens)

\* returns the ranked list with at most its cheapest element (<< >> is None)
get_cheapest_model(messages, expected_output_tokens, provider_filter) ==
  LET models      == QueryActiveModels(provider_filter)
      model_costs == SortByCost(MapModelCosts(models, messages, expected_output_tokens))
  IN  IF model_costs = << >> THEN << >> ELSE <<model_costs[1]>>

get_ranked_models(messages, expected_output_tokens, provider_filter, max_cost) ==
  LET models      == QueryActiveModels(provider_filter)
      all_costs   == MapModelCosts(models, messages, expected_output_tokens)
      model_costs == SelectSeq(all_costs,
                               LAMBDA c : ~(max_cost # None /\ c.estimated_cost > max_cost))
  IN  SortByCost(model_costs)

(* ---------------------------- state ------------------------------------ *)
VARIABLES
  total_spent,      \* users.total_spent_usd, per user
  spending_limit,   \* users.spending_limit_usd, per user (None = unlimited)
  ledger,           \* committed rows of the requests table, in commit order
  cache,            \* the Redis key space: set of [key, response] entries
  req,              \* per slot: the request being handled and its position
  started,          \* number of requests received so far
  comparisons,      \* committed rows of the comparisons table
  cost_call         \* a call of calculate_cost / estimate_cost on its own (SpecCost)

vars == <<total_spent, spending_limit, ledger, cache, req, started, comparisons,
          cost_call>>

(* ---------------------------- budget service --------------------------- *)
Max(a, b) == IF a >= b THEN a ELSE b

\* check_budget with >= in place of > in the would_exceed test
check_budget_GE(user_id, estimated_cost) ==
  LET limit == spending_limit[user_id]
      spent == total_spent[user_id]
  IN  IF limit = None
      THEN [ approved |-> TRUE, reason |-> "No spending limit set",
             total_spent_usd |-> None, spending_limit_usd |-> None,
             remaining_budget_usd |-> None, estimated_cost_usd |-> None,
             would_exceed_by_usd |-> None ]
      ELSE IF (spent + estimated_cost) >= limit
      THEN [ approved |-> FALSE, reason |-> "Budget exceeded",
             total_spent_usd |-> Round6(spent), spending_limit_usd |-> limit,
             remaining_budget_usd |-> Round6(Max(0, limit - spent)),
             estimated_cost_usd |-> Round6(estimated_cost),
             would_exceed_by_usd |-> Round6((spent + estimated_cost) - limit) ]
      ELSE [ approved |-> TRUE, reason |-> "Within budget",
             total_spent_usd |-> Round6(spent), spending_limit_usd |-> limit,
             remaining_budget_usd |-> Round6(limit - spent),
             estimated_cost_usd |-> None, would_exceed_by_usd |-> None ]

\* check_budget reporting the projected total as the shortfall
check_budget_NoLimitInShortfall(user_id, estimated_cost) ==
  LET limit == spending_limit[user_id]
      spent == total_spent[user_id]
  IN  IF limit = None
      THEN [ approved |-> TRUE, reason |-> "No spending limit set",
             total_spent_usd |-> None, spending_limit_usd |-> None,
             remaining_budget_usd |-> None, estimated_cost_usd |-> None,
             would_exceed_by_usd |-> None ]
      ELSE IF (spent + estimated_cost) > limit
      THEN [ approved |-> FALSE, reason |-> "Budget exceeded",
             total_spent_usd |-> Round6(spent), spending_limit_usd |-> limit,
             remaining_budget_usd |-> Round6(Max(0, limit - spent)),
             estimated_cost_usd |-> Round6(estimated_cost),
             would_exceed_by_usd |-> Round6(spent + estimated_cost) ]
      ELSE [ approved |-> TRUE, reason |-> "Within budget",
             total_spent_usd |-> Round6(spent), spending_limit_usd |-> limit,
             remaining_budget_usd |-> Round6(limit - spent),
             estimated_cost_usd |-> None, would_exceed_by_usd |-> None ]

\* check_budget comparing the estimate alone with the limit
check_budget_IgnoreSpent(user_id, estimated_cost) ==
  LET limit == spending_limit[user_id]
      spent == total_spent[user_id]
  IN  IF limit = None
      THEN [ approved |-> TRUE, reason |-> "No spending limit set",
             total_spent_usd |-> None, spending_limit_usd |-> None,
             remaining_budget_usd |-> None, estimated_cost_usd |-> None,
             would_exceed_by_usd |-> None ]
      ELSE IF estimated_cost > limit
      THEN [ approved |-> FALSE, reason |-> "Budget exceeded",
             total_spent_usd |-> Round6(spent), spending_limit_usd |-> limit,
             remaining_budget_usd |-> Round6(Max(0, limit - spent)),
             estimated_cost_usd |-> Round6(estimated_cost),
             would_exceed_by_usd |-> Round6((spent + estimated_cost) - limit) ]
      ELSE [ approved |-> TRUE, reason |-> "Within budget",
             total_spent_usd |-> Round6(spent), spending_limit_usd |-> limit,
             remaining_budget_usd |-> Round6(limit - spent),
             estimated_cost_usd |-> None, would_exceed_by_usd |-> None ]

check_budget(user_id, estimated_cost) ==
  LET limit == spending_limit[user_id]
      spent == total_spent[user_id]
      would_exceed == (spent + estimated_cost) > limit
  IN  IF limit = None
      THEN [ approved |-> TRUE, reason |-> "No spending limit set",
             total_spent_usd |-> None, spending_limit_usd |-> None,
             remaining_budget_usd |-> None, estimated_cost_usd |-> None,
             would_exceed_by_usd |-> None ]
      ELSE IF would_exceed
      THEN [ approved |-> FALSE, reason |-> "Budget exceeded",
             total_spent_usd |-> Round6(spent), spending_limit_usd |-> limit,
             remaining_budget_usd |-> Round6(Max(0, limit - spent)),
             estimated_cost_usd |-> Round6(estimated_cost),
             would_exceed_by_usd |-> Round6((spent + estimated_cost) - limit) ]
      ELSE [ approved |-> TRUE, reason |-> "Within budget",
             total_spent_usd |-> Round6(spent), spending_limit_usd |-> limit,
             remaining_budget_usd |-> Round6(limit - spent),
             estimated_cost_usd |-> None, would_exceed_by_usd |-> None ]

\* update_spending storing the cost in place of the new total
update_spending_Overwrite(user_id, cost) ==
  [total_spent EXCEPT ![user_id] = cost]

\* update_spending taking the cost off the total
update_spending_Subtract(user_id, cost) ==
  [total_spent EXCEPT ![user_id] = total_spent[user_id] - cost]

\* the value update_spending stores for the user
update_spending(user_id, cost) ==
  [total_spent EXCEPT ![user_id] = total_spent[user_id] + cost]

(* ---------------------------- requests and adapters -------------------- *)
Prompts ==
  { << >>,
    << [role |-> "user", content |-> "Hello"] >> }

ExpectedOutputTokens == {1}
MaxCosts == {None, 50, 200}
ProviderFilters == { {}, {"openai"}, {"google", "mistral"}, {"anthropic"} }
\* temperature in tenths
Temperatures == {0, 7}
MaxTokens == {None}
ManualModels == {"none", "gpt-4o-mini", "deepseek-chat", "gpt-3.5-turbo", "mistral-small"}

\* ChatCompletionRequest bodies
ChatRequests ==
  [ mode : {"cost-optimized"}, model : {"none"}, messages : Prompts,
    expected_output_tokens : ExpectedOutputTokens, max_cost : MaxCosts,
    provider_filter : ProviderFilters, temperature : {7}, max_tokens : {None} ]
  \cup
  [ mode : {"manual"}, model : ManualModels,
    messages : { << [role |-> "user", content |-> "Hello"] >> },
    expected_output_tokens : {1}, max_cost : {None},
    provider_filter : { {} }, temperature : Temperatures, max_tokens : MaxTokens ]

\* What provider.send_request can do: return a success outcome with usage,
\* return a failure outcome (usage None), or raise.
AdapterResults ==
  [ kind : {"ok"}, success : {TRUE}, content : {"text"},
    input_tokens : {8}, output_tokens : {1}, error : {"none"} ]
  \cup
  { [ kind |-> "fail", success |-> FALSE, content |-> "none",
      input_tokens |-> None, output_tokens |-> None, error |-> "provider error" ],
    [ kind |-> "raise", success |-> FALSE, content |-> "none",
      input_tokens |-> None, output_tokens |-> None, error |-> "exception" ] }

\* the fields of a request that the cache key is meant to stand for
NoFields ==
  [ messages |-> << >>, model_id |-> "none", temperature |-> None, max_tokens |-> None ]

\* what _send_to_provider can do for a model of the provider (routes.py
\* 60-78): OpenAIProvider() is constructed as its class declares and its
\* send_request catches every exception; the other adapters are constructed
\* without the api_key or the setting their classes ask for, so the call
\* can also raise.
AdapterResultsOf(provider) ==
  IF provider = "openai"
  THEN {result \in AdapterResults : result.kind # "raise"}
  ELSE AdapterResults

NoCheck ==
  [ approved |-> TRUE, reason |-> "none",
    total_spent_usd |-> None, spending_limit_usd |-> None,
    remaining_budget_usd |-> None, estimated_cost_usd |-> None,
    would_exceed_by_usd |-> None ]

\* the HTTP response of a request (status 0: none yet)
NoResp ==
  [ status |-> 0, detail |-> "none", model |-> "none", content |-> "none",
    prompt_tokens |-> None, completion_tokens |-> None,
    input_cost_usd |-> None, output_cost_usd |-> None,
    total_cost_usd |-> None, estimated_cost_usd |-> None,
    models_considered |-> None, cached |-> FALSE, budget |-> NoCheck,
    results |-> << >>,
    total_requests |-> None, successful |-> None, failed |-> None ]

ErrorResp(status, detail) == [NoResp EXCEPT !.status = status, !.detail = detail]

IdleReq ==
  [ pc |-> "idle", kind |-> "none", user |-> "none", mode |-> "none",
    ranked |-> << >>, idx |-> 0, model |-> 0,
    estimated_cost |-> None, models_considered |-> None,
    key |-> << >>, group |-> 0, branches |-> << >>, pending |-> << >>,
    read_spent |-> None, resp |-> NoResp,
    enabled |-> FALSE,      \* cache_service.enabled of the request's CacheService
    \* history of the handler's calls, kept for the properties below
    fields |-> NoFields,    \* what a manual-mode request asked for
    model_ids |-> << >>,    \* the models list of a compare request, as given
    item_ids |-> << >>,     \* the ids of the items of a batch request, as given
    finished |-> << >>,     \* positions of the fan-out tasks in completion order
    no_candidate |-> FALSE, \* the request's constraints leave get_ranked_models empty
    cache_calls |-> << >>,  \* "get" / "set" per call on the request's CacheService
    faults |-> << >>,       \* backend calls of the request that raised
    trace |-> << >>,        \* "check" per check_budget call, "dispatch" per adapter call
    dispatched |-> << >>,   \* catalog ids send_request was called for, in call order
    outcomes |-> << >>,     \* what each of those calls did: "ok", "fail", "raise"
    checked_cost |-> None,  \* the estimate passed to check_budget
    budget_check |-> NoCheck ] \* what check_budget answered

Done(r, resp) == [r EXCEPT !.pc = "done", !.resp = resp]

\* _send_to_provider up to its await: pick the adapter by provider name
\* (HTTPException 500 when there is none) and call send_request.
_send_to_provider(r, model) ==
  IF model.provider \in SupportedProviders
  THEN [r EXCEPT !.pc = "await", !.model = model.id,
                 !.trace = Append(@, "dispatch"),
                 !.dispatched = Append(@, model.id)]
  ELSE Done([r EXCEPT !.model = model.id], ErrorResp(500, "Provider not supported"))

\* CacheService._generate_cache_key
_generate_cache_key(messages, model_id, temperature, max_tokens) ==
  <<messages, model_id, temperature, max_tokens>>

\* request.temperature or 0.7
TemperatureOrDefault(temperature) ==
  IF temperature = None \/ temperature = 0 THEN 7 ELSE temperature

LedgerEntry(user_id, model, status, cost, group) ==
  [ user_id |-> user_id, model_id |-> model, status |-> status,
    total_cost_usd |-> cost, group |-> group ]

\* no call of the cost functions on its own
NoCost == [ input_cost_usd |-> 0, output_cost_usd |-> 0, total_cost_usd |-> 0 ]

NoCall ==
  [ fn |-> "none", state |-> "idle", messages |-> << >>,
    input_tokens |-> 0, output_tokens |-> 0,
    input_price_per_1m |-> 0, output_price_per_1m |-> 0, result |-> NoCost ]

TypeOK ==
  /\ \A u \in Users : total_spent[u] \in Nat
  /\ \A u \in Users : spending_limit[u] \in Nat \cup {None}
  /\ started \in 0..MaxRequests
  /\ \A s \in DOMAIN req :
       req[s].pc \in {"idle", "await", "gather", "spend_read", "spend_write", "done"}

Init ==
  /\ total_spent = [u \in Users |-> 0]
  /\ spending_limit = [u \in Users |-> None]
  /\ ledger = << >>
  /\ cache = {}
  /\ req = [s \in Slots |-> IdleReq]
  /\ started = 0
  /\ comparisons = << >>
  /\ cost_call = NoCall

(* ---------------------------- cache service ---------------------------- *)
\* CacheService.get: the stored response, or NoResult for None
NoResult ==
  [ kind |-> "none", success |-> FALSE, content |-> "none",
    input_tokens |-> None, output_tokens |-> None, error |-> "none" ]

\* DEFAULT_TTL, in seconds
DEFAULT_TTL(tier) ==
  CASE tier = "tier-1" -> 86400
    [] tier = "tier-2" -> 3600
    [] tier = "tier-3" -> 1800

\* what redis_client.ping() can do in CacheService.__init__: answer, raise
\* redis.ConnectionError, or raise another redis error (redis.TimeoutError)
PingOutcomes == {"PONG", "ConnectionError", "TimeoutError"}

\* what redis_client.get / redis_client.setex can do: answer or raise
RedisOutcomes == {"ok", "error"}

\* CacheService.__init__: enabled unless ping raised redis.ConnectionError;
\* any other exception of ping leaves the constructor
CacheService(ping) ==
  [ enabled |-> ping # "ConnectionError", raised |-> ping = "TimeoutError" ]

\* json.dumps of a provider result: the text of its items
JsonDumps(response) ==
  << <<"success", response.success>>, <<"content", response.content>>,
     <<"input_tokens", response.input_tokens>>,
     <<"output_tokens", response.output_tokens>>,
     <<"error", response.error>> >>

\* json.loads of such a text
JsonLoads_DropUsage(data) ==
  [ kind |-> IF data[1][2] THEN "ok" ELSE "fail",
    success |-> data[1][2], content |-> data[2][2],
    input_tokens |-> 0, output_tokens |-> 0, error |-> data[5][2] ]

JsonLoads(data) ==
  [ kind |-> IF data[1][2] THEN "ok" ELSE "fail",
    success |-> data[1][2], content |-> data[2][2],
    input_tokens |-> data[3][2], output_tokens |-> data[4][2], error |-> data[5][2] ]

\* CacheService.get returning the value of some key of the cache
CacheGet_AnyKey(enabled, outcome, key) ==
  IF ~enabled \/ outcome = "error" THEN NoResult
  ELSE IF cache # {}
  THEN JsonLoads((CHOOSE e \in cache : TRUE).data)
  ELSE NoResult

\* CacheService.get: None when disabled, when redis raised or when the key
\* is absent, else the decoded value
CacheGet(enabled, outcome, key) ==
  IF ~enabled \/ outcome = "error" THEN NoResult
  ELSE IF \E e \in cache : e.key = key
  THEN JsonLoads((CHOOSE e \in cache : e.key = key).data)
  ELSE NoResult

\* CacheService.set: the cache after the call; setex overwrites the key.
\* fields is not stored by redis: it records which request wrote the entry.
CacheSet(enabled, outcome, key, response, ttl_seconds, fields) ==
  IF ~enabled \/ outcome = "error" THEN cache
  ELSE {e \in cache : e.key # key}
       \cup {[ key |-> key, data |-> JsonDumps(response),
                ttl |-> IF ttl_seconds = None THEN DEFAULT_TTL("tier-2") ELSE ttl_seconds,
                fields |-> fields ]}

\* the backend calls of a CacheService method that raised
Faults(enabled, outcome, method) ==
  IF enabled /\ outcome = "error" THEN <<method>> ELSE << >>

(* ---------------------------- chat completion -------------------------- *)
\* WalkStep with the exhaustion test lost: the last failure is taken for a result
WalkStep_NoExhaustion(result, idx, ranked) ==
  IF result.success THEN "break"
  ELSE IF idx < Len(ranked) THEN "continue"
  ELSE "break"

\* The fallback loop's decision after one attempt returned (routes.py 264-289)
WalkStep(result, idx, ranked) ==
  IF result.success THEN "break"
  ELSE IF idx < Len(ranked) THEN "continue"
  ELSE "exhausted"

\* CandidateAt walking the ranking from its expensive end
CandidateAt_Reversed(ranked, idx) ==
  CatalogById(ranked[Len(ranked) + 1 - idx].model_db_id)

\* for model_info in ranked_models: the candidate of the idx-th iteration
CandidateAt(ranked, idx) == CatalogById(ranked[idx].model_db_id)

\* BudgetGate without the test of the mode
BudgetGate_AllModes(user, request) ==
  LET cheapest == get_cheapest_model(request.messages, request.expected_output_tokens,
                                     request.provider_filter)
  IN  IF cheapest # << >>
      THEN [ checked |-> TRUE, estimated_cost |-> cheapest[1].estimated_cost,
             budget_check |-> check_budget(user, cheapest[1].estimated_cost) ]
      ELSE [ checked |-> FALSE, estimated_cost |-> None, budget_check |-> NoCheck ]

\* Budget checking for cost-optimized mode (routes.py 111-130): the estimate
\* of the cheapest model under the provider filter is checked, when there is one.
BudgetGate(user, request) ==
  LET cheapest == get_cheapest_model(request.messages, request.expected_output_tokens,
                                     request.provider_filter)
  IN  IF request.mode = "cost-optimized" /\ cheapest # << >>
      THEN [ checked |-> TRUE, estimated_cost |-> cheapest[1].estimated_cost,
             budget_check |-> check_budget(user, cheapest[1].estimated_cost) ]
      ELSE [ checked |-> FALSE, estimated_cost |-> None, budget_check |-> NoCheck ]

\* the response built at routes.py 337-356
SuccessResp(r, model, result, cost_info) ==
  [NoResp EXCEPT !.status = 200, !.detail = "ok",
                 !.model = model.model_id,
                 !.content = result.content,
                 !.prompt_tokens = result.input_tokens,
                 !.completion_tokens = result.output_tokens,
                 !.input_cost_usd = cost_info.input_cost_usd,
                 !.output_cost_usd = cost_info.output_cost_usd,
                 !.total_cost_usd = cost_info.total_cost_usd,
                 !.estimated_cost_usd = r.estimated_cost,
                 !.models_considered = r.models_considered]

\* Lines 293-356 in one worker process: actual cost, success row, spend
\* update, response, with no suspension point in between.
ChatSuccess(s, r, result) ==
  LET model     == CatalogById(r.model)
      cost_info == calculate_cost(result.input_tokens, result.output_tokens,
                                  model.input_price, model.output_price)
  IN  /\ ledger' = Append(ledger, LedgerEntry(r.user, model.id, "success",
                                              cost_info.total_cost_usd, 0))
      /\ total_spent' = update_spending(r.user, cost_info.total_cost_usd)
      /\ req' = [req EXCEPT ![s] = Done(r, SuccessResp(r, model, result, cost_info))]

\* Lines 293-323: actual cost and success row; the spend update follows
ChatSuccessWorker(s, r, result) ==
  LET model     == CatalogById(r.model)
      cost_info == calculate_cost(result.input_tokens, result.output_tokens,
                                  model.input_price, model.output_price)
  IN  /\ ledger' = Append(ledger, LedgerEntry(r.user, model.id, "success",
                                              cost_info.total_cost_usd, 0))
      /\ total_spent' = total_spent
      /\ req' = [req EXCEPT ![s] =
                   [r EXCEPT !.pc = "spend_read",
                             !.resp = SuccessResp(r, model, result, cost_info)]]

\* what the two commits of lines 322-326 can do: both succeed, the commit of
\* the request row raises, or the commit inside update_spending raises
CommitFaults == {"none", "request_log", "update_spending"}

\* Lines 293-356 with a database whose commits can fail: the exception of a
\* commit is caught nowhere and leaves the handler
ChatSuccessCommit(s, r, result) ==
  \E fault \in CommitFaults :
    LET model     == CatalogById(r.model)
        cost_info == calculate_cost(result.input_tokens, result.output_tokens,
                                    model.input_price, model.output_price)
    IN  CASE fault = "none" -> ChatSuccess(s, r, result)
          [] fault = "request_log" ->
               /\ ledger' = ledger
               /\ total_spent' = total_spent
               /\ req' = [req EXCEPT ![s] = Done(r, ErrorResp(500, "Internal Server Error"))]
          [] fault = "update_spending" ->
               /\ ledger' = Append(ledger, LedgerEntry(r.user, model.id, "success",
                                                       cost_info.total_cost_usd, 0))
               /\ total_spent' = total_spent
               /\ req' = [req EXCEPT ![s] = Done(r, ErrorResp(500, "Internal Server Error"))]

\* the success path in one process, in one of several worker processes, or
\* in one process with a database whose commits can fail
Success(s, r, result, setting) ==
  CASE setting = "workers" -> ChatSuccessWorker(s, r, result)
    [] setting = "commit_faults" -> ChatSuccessCommit(s, r, result)
    [] OTHER -> ChatSuccess(s, r, result)

\* the response of a cache hit with the costs of the stored usage
CachedResp_Billed(model, cached_response) ==
  LET cost_info == calculate_cost(cached_response.input_tokens,
                                  cached_response.output_tokens,
                                  model.input_price, model.output_price)
  IN  [NoResp EXCEPT !.status = 200, !.detail = "ok",
                     !.model = model.model_id,
                     !.content = cached_response.content,
                     !.prompt_tokens = cached_response.input_tokens,
                     !.completion_tokens = cached_response.output_tokens,
                     !.input_cost_usd = cost_info.input_cost_usd,
                     !.output_cost_usd = cost_info.output_cost_usd,
                     !.total_cost_usd = cost_info.total_cost_usd,
                     !.cached = TRUE]

\* the response of a cache hit (routes.py 168-194)
CachedResp(model, cached_response) ==
  [NoResp EXCEPT !.status = 200, !.detail = "ok",
                 !.model = model.model_id,
                 !.content = cached_response.content,
                 !.prompt_tokens = cached_response.input_tokens,
                 !.completion_tokens = cached_response.output_tokens,
                 !.input_cost_usd = 0,
                 !.output_cost_usd = 0,
                 !.total_cost_usd = 0,
                 !.cached = TRUE]

\* MANUAL MODE (routes.py 146-232) up to the adapter call
ChatManual(s, r0, request) ==
  IF ~\E i \in DOMAIN Catalog :
        Catalog[i].model_id = request.model /\ Catalog[i].is_active
  THEN req' = [req EXCEPT ![s] = Done(r0, ErrorResp(400, "Model not found or inactive"))]
  ELSE
    \E ping \in PingOutcomes, got \in RedisOutcomes :
    LET model == Catalog[CHOOSE i \in DOMAIN Catalog :
                           Catalog[i].model_id = request.model /\ Catalog[i].is_active]
        cache_service == CacheService(ping)
        key == _generate_cache_key(request.messages, model.model_id,
                                   TemperatureOrDefault(request.temperature),
                                   request.max_tokens)
        cached_response == CacheGet(cache_service.enabled, got, key)
        rc == [r0 EXCEPT !.model = model.id,
                         !.faults = IF ping = "PONG" THEN << >> ELSE <<ping>>]
        r1 == [rc EXCEPT !.key = key, !.enabled = cache_service.enabled,
                         !.cache_calls = <<"get">>,
                         !.faults = @ \o Faults(cache_service.enabled, got, "get")]
    IN  IF cache_service.raised
        THEN req' = [req EXCEPT ![s] = Done(rc, ErrorResp(500, "Internal Server Error"))]
        ELSE IF cached_response.kind # "none"
        THEN req' = [req EXCEPT ![s] = Done(r1, CachedResp(model, cached_response))]
        ELSE req' = [req EXCEPT ![s] = _send_to_provider(r1, model)]

\* COST-OPTIMIZED MODE (routes.py 235-273) up to the first adapter call
ChatCostOptimized(s, r0, request) ==
  LET ranked_models == get_ranked_models(request.messages, request.expected_output_tokens,
                                         request.provider_filter, request.max_cost)
  IN
  IF ranked_models = << >>
  THEN req' = [req EXCEPT ![s] =
                 Done(r0, ErrorResp(400, "No models available matching constraints"))]
  ELSE
    LET r1 == [r0 EXCEPT !.ranked = ranked_models, !.idx = 1,
                         !.models_considered = Len(ranked_models),
                         !.estimated_cost = ranked_models[1].estimated_cost]
    IN  req' = [req EXCEPT ![s] = _send_to_provider(r1, CandidateAt(ranked_models, 1))]

SlotFree(s) == req[s].pc \in {"idle", "done"}

\* the validation without its test
MissingModel_Never(request) == FALSE

\* request.mode == "manual" and not request.model (routes.py 102)
MissingModel(request) == request.mode = "manual" /\ request.model = "none"

\* what a manual-mode request asked for
FieldsOf(request) ==
  IF request.mode = "manual"
  THEN [ messages |-> request.messages, model_id |-> request.model,
         temperature |-> request.temperature, max_tokens |-> request.max_tokens ]
  ELSE NoFields

\* POST /v1/chat/completions from its entry to the first await, or to its
\* response when the request is rejected or answered from the cache.
chat_completion(s) ==
  /\ SlotFree(s)
  /\ started < MaxRequests
  /\ started' = started + 1
  /\ UNCHANGED cost_call
  /\ UNCHANGED <<total_spent, spending_limit, ledger, cache, comparisons>>
  /\ \E user \in Users, request \in ChatRequests :
       LET gate == BudgetGate(user, request)
           r0 == [IdleReq EXCEPT !.kind = "chat", !.user = user, !.mode = request.mode,
                                 !.fields = FieldsOf(request),
                                 !.no_candidate =
                                    /\ request.mode = "cost-optimized"
                                    /\ get_ranked_models(request.messages,
                                                         request.expected_output_tokens,
                                                         request.provider_filter,
                                                         request.max_cost) = << >>,
                                 !.trace = IF gate.checked THEN <<"check">> ELSE << >>,
                                 !.checked_cost = gate.estimated_cost,
                                 !.budget_check = gate.budget_check]
           rv == [IdleReq EXCEPT !.kind = "chat", !.user = user, !.mode = request.mode,
                                 !.fields = FieldsOf(request)]
       IN
       IF MissingModel(request)
       THEN req' = [req EXCEPT ![s] = Done(rv, ErrorResp(400, "model is required"))]
       ELSE IF ~gate.budget_check.approved
       THEN req' = [req EXCEPT ![s] =
                      Done(r0, [ErrorResp(402, "Budget exceeded")
                                  EXCEPT !.budget = gate.budget_check])]
       ELSE IF request.mode = "manual"
       THEN ChatManual(s, r0, request)
       ELSE ChatCostOptimized(s, r0, request)

\* a request in any mode waiting for its adapter call
ManualAwaits_AnyMode(s) ==
  req[s].pc = "await" /\ req[s].kind = "chat"

\* a manual-mode request waiting at routes.py 197
ManualAwaits(s) ==
  req[s].pc = "await" /\ req[s].kind = "chat" /\ req[s].mode = "manual"

\* the failure test with its condition lost
ProviderFailed_Never(result) == FALSE

\* if not result["success"] (routes.py 199)
ProviderFailed(result) == ~result.success

\* The adapter call of a manual-mode request returns (routes.py 197-232)
ManualReturn(s, setting) ==
  /\ ManualAwaits(s)
  /\ \E result \in AdapterResultsOf(CatalogById(req[s].model).provider),
        stored \in RedisOutcomes :
       LET r == [req[s] EXCEPT !.outcomes = Append(@, result.kind)]
           rs == [r EXCEPT !.cache_calls = Append(@, "set"),
                           !.faults = @ \o Faults(r.enabled, stored, "set")]
       IN
       CASE result.kind = "raise" ->
              /\ req' = [req EXCEPT ![s] = Done(r, ErrorResp(500, "Internal Server Error"))]
              /\ UNCHANGED <<total_spent, ledger, cache>>
         [] result.kind # "raise" /\ ProviderFailed(result) ->
              /\ ledger' = Append(ledger, LedgerEntry(r.user, r.model, "error", None, 0))
              /\ req' = [req EXCEPT ![s] = Done(r, ErrorResp(500, "Provider error"))]
              /\ UNCHANGED <<total_spent, cache>>
         [] result.kind # "raise" /\ ~ProviderFailed(result) ->
              /\ cache' = CacheSet(r.enabled, stored, r.key, result, 3600, r.fields)
              /\ Success(s, rs, result, setting)
  /\ UNCHANGED <<spending_limit, started, cost_call, comparisons>>

\* The adapter call of a fallback-walk attempt returns (routes.py 273-291)
FallbackReturn(s, setting) ==
  /\ req[s].pc = "await" /\ req[s].kind = "chat" /\ req[s].mode = "cost-optimized"
  /\ \E result \in AdapterResultsOf(CatalogById(req[s].model).provider) :
       LET r == [req[s] EXCEPT !.outcomes = Append(@, result.kind)]
           step == WalkStep(result, r.idx, r.ranked)
       IN
       CASE result.kind = "raise" ->
              /\ req' = [req EXCEPT ![s] = Done(r, ErrorResp(500, "Internal Server Error"))]
              /\ UNCHANGED <<total_spent, ledger>>
         [] result.kind # "raise" /\ step = "break" ->
              Success(s, r, result, setting)
         [] result.kind # "raise" /\ step = "continue" ->
              /\ req' = [req EXCEPT ![s] =
                           _send_to_provider([r EXCEPT !.idx = r.idx + 1],
                                             CandidateAt(r.ranked, r.idx + 1))]
              /\ UNCHANGED <<total_spent, ledger>>
         [] result.kind # "raise" /\ step = "exhausted" ->
              /\ req' = [req EXCEPT ![s] = Done(r, ErrorResp(500, "All available models failed"))]
              /\ UNCHANGED <<total_spent, ledger>>
  /\ UNCHANGED <<spending_limit, cache, started, cost_call, comparisons>>

ManualResult(s) == ManualReturn(s, "single")

FallbackResult(s) == FallbackReturn(s, "single")

(* ---------------------------- fan-out: compare ------------------------- *)
Range(f) == {f[i] : i \in DOMAIN f}

RECURSIVE SumCosts(_)
SumCosts(results) ==
  IF results = << >> THEN 0
  ELSE Head(results).total_cost_usd + SumCosts(Tail(results))

MaxCompareModels == 10
MaxBatchRequests == 100

CompareModelLists ==
  { << "gpt-4o-mini" >>,
    << "gemini-2.5-flash-lite", "gpt-4o-mini" >>,
    << "gpt-4o-mini", "mistral-small" >>,
    [i \in 1..(MaxCompareModels + 1) |-> "gpt-4o-mini"] }

\* the size validation without its upper bound
CompareSizeError_NoUpper(models) ==
  IF Len(models) < 2 THEN "Must specify at least 2 models"
  ELSE "none"

\* the size validation of compare_models (routes.py 373-383)
CompareSizeError(models) ==
  IF Len(models) < 2 THEN "Must specify at least 2 models"
  ELSE IF Len(models) > MaxCompareModels THEN "Maximum 10 models per comparison"
  ELSE "none"

\* the size validation of batch_process (routes.py 428-438)
BatchSizeError(requests) ==
  IF Len(requests) = 0 THEN "Must provide at least 1 request"
  ELSE IF Len(requests) > MaxBatchRequests THEN "Maximum 100 requests per batch"
  ELSE "none"

\* gather returning its results in the order the tasks finished
GatherResults_CompletionOrder(branches, finished) ==
  [k \in 1..Len(finished) |-> branches[finished[k]]]

\* results = await asyncio.gather(*tasks): one result per task, in task order
GatherResults(branches, finished) == branches

\* ComparisonRequest bodies
CompareRequests == [ messages : { << [role |-> "user", content |-> "Hello"] >> },
                     models : CompareModelLists ]

\* one task of asyncio.gather and what it returned
Branch(model, id, index) ==
  [ model |-> model.id, model_id |-> model.model_id, id |-> id, index |-> index,
    state |-> "pending", status |-> "none", content |-> "none",
    total_cost_usd |-> 0, error_message |-> "none",
    outcome |-> "none" ]  \* what the task's adapter call did (kept for the properties)

\* _send_to_model / _process_single_request after the adapter call: the try
\* body turns whatever send_request returned into a success row, the except
\* clause turns a raised exception into an error row.
BranchFinish(b, model, result) ==
  IF result.kind = "raise"
  THEN [b EXCEPT !.state = "done", !.status = "error", !.outcome = result.kind,
                 !.total_cost_usd = 0, !.error_message = result.error]
  ELSE LET input_tokens  == IF result.kind = "ok" THEN result.input_tokens ELSE 0
           output_tokens == IF result.kind = "ok" THEN result.output_tokens ELSE 0
           cost_info == calculate_cost(input_tokens, output_tokens,
                                       model.input_price, model.output_price)
       IN  [b EXCEPT !.state = "done", !.status = "success", !.outcome = result.kind,
                     !.content = result.content,
                     !.total_cost_usd = cost_info.total_cost_usd]

\* the except clause reporting a cost for the failed task
BranchNoProvider_Charged(b) ==
  [b EXCEPT !.state = "done", !.status = "error", !.total_cost_usd = 1,
            !.error_message = "Provider not found"]

\* self.providers.get(model.provider.name) is None: ValueError, caught
BranchNoProvider(b) ==
  [b EXCEPT !.state = "done", !.status = "error", !.total_cost_usd = 0,
            !.error_message = "Provider not found"]

\* the coroutine up to its first await
BranchStart(b, model) ==
  IF model.provider \in SupportedProviders THEN b ELSE BranchNoProvider(b)

\* rows db.add()ed by the branches that finished without awaiting, in task order
RECURSIVE RowsOfDone(_, _, _)
RowsOfDone(branches, user, group) ==
  IF branches = << >> THEN << >>
  ELSE (IF Head(branches).state = "done"
        THEN << LedgerEntry(user, Head(branches).model, Head(branches).status,
                            Head(branches).total_cost_usd, group) >>
        ELSE << >>)
       \o RowsOfDone(Tail(branches), user, group)

\* positions of the tasks that finished without awaiting, in task order
DoneAtStart(branches) ==
  SelectSeq([i \in 1..Len(branches) |-> i], LAMBDA i : branches[i].state = "done")

\* POST /v1/chat/compare up to asyncio.gather
compare_models(s) ==
  /\ SlotFree(s)
  /\ started < MaxRequests
  /\ started' = started + 1
  /\ UNCHANGED cost_call
  /\ \E user \in Users, request \in CompareRequests :
       LET r0 == [IdleReq EXCEPT !.kind = "compare", !.user = user,
                                 !.model_ids = request.models]
           model_ids == request.models
           models == SelectSeq(Catalog, LAMBDA m : m.model_id \in Range(model_ids)
                                                   /\ m.is_active)
       IN
       IF CompareSizeError(model_ids) # "none"
       THEN req' = [req EXCEPT ![s] = Done(r0, ErrorResp(400, CompareSizeError(model_ids)))]
       ELSE IF Len(models) # Len(model_ids)
       THEN req' = [req EXCEPT ![s] = Done(r0, ErrorResp(500, "Internal Server Error"))]
       ELSE LET comparison_id == started + 1
                branches == [i \in 1..Len(models) |->
                               BranchStart(Branch(models[i], "none", i - 1), models[i])]
            IN  req' = [req EXCEPT ![s] =
                          [r0 EXCEPT !.pc = "gather", !.group = comparison_id,
                                     !.branches = branches,
                                     !.finished = DoneAtStart(branches),
                                     !.pending = RowsOfDone(branches, user, comparison_id)]]
  /\ UNCHANGED <<total_spent, spending_limit, ledger, cache, comparisons>>

\* one _send_to_model task resumes after its send_request
CompareBranchResult(s) ==
  /\ req[s].pc = "gather" /\ req[s].kind = "compare"
  /\ \E i \in DOMAIN req[s].branches, result \in AdapterResults :
       LET r == req[s]
           b == BranchFinish(r.branches[i], CatalogById(r.branches[i].model), result)
       IN  /\ r.branches[i].state = "pending"
           /\ req' = [req EXCEPT ![s].branches[i] = b,
                                 ![s].finished = Append(@, i),
                                 ![s].pending = Append(@, LedgerEntry(r.user, b.model, b.status,
                                                                      b.total_cost_usd, r.group))]
  /\ UNCHANGED <<total_spent, spending_limit, ledger, cache, started, cost_call, comparisons>>

\* a gather that returns with the first task that finished
AllDone_Any(branches) == \E i \in DOMAIN branches : branches[i].state = "done"

\* asyncio.gather returns when every task has returned
AllDone(branches) == \A i \in DOMAIN branches : branches[i].state = "done"

\* gather returned: total cost, commit, response (comparison_service 238-260)
CompareJoin(s) ==
  /\ req[s].pc = "gather" /\ req[s].kind = "compare"
  /\ AllDone(req[s].branches)
  /\ LET r == req[s]
         total_cost == SumCosts(r.branches)
     IN  /\ ledger' = ledger \o r.pending
         /\ comparisons' = Append(comparisons, [id |-> r.group, user_id |-> r.user,
                                                total_cost_usd |-> total_cost])
         /\ req' = [req EXCEPT ![s] =
                      Done([r EXCEPT !.pending = << >>],
                           [NoResp EXCEPT !.status = 200, !.detail = "ok",
                                          !.total_cost_usd = total_cost,
                                          !.results = GatherResults(r.branches, r.finished)])]
  /\ UNCHANGED <<total_spent, spending_limit, cache, started, cost_call>>

(* ---------------------------- fan-out: batch --------------------------- *)
BatchItems ==
  { << >>,
    << [messages |-> << [role |-> "user", content |-> "Hello"] >>, id |-> "r0"],
       [messages |-> << [role |-> "user", content |-> "Hello"] >>, id |-> "r1"] >>,
    << [messages |-> << [role |-> "user", content |-> "Hello"] >>, id |-> "r0"],
       [messages |-> << [role |-> "user", content |-> "Hello"] >>, id |-> "none"] >>,
    [i \in 1..(MaxBatchRequests + 1) |->
       [messages |-> << [role |-> "user", content |-> "Hello"] >>, id |-> "r0"]] }

\* BatchRequest bodies
BatchRequests == [ model : {"gpt-4o-mini", "gpt-3.5-turbo"}, requests : BatchItems ]

\* req.get('id', str(uuid.uuid4())) on the dicts built at routes.py 448-454:
\* the key 'id' is always there, so the default is never taken
RequestId(item) == item.id

\* BatchResponseItem declares id: str; a result without id fails the
\* validation of the response model
BatchResponseValid(results) == \A i \in DOMAIN results : results[i].id # "none"

CountStatus(results, status) ==
  Cardinality({i \in DOMAIN results : results[i].status = status})

\* POST /v1/chat/batch up to asyncio.gather
batch_process(s) ==
  /\ SlotFree(s)
  /\ started < MaxRequests
  /\ started' = started + 1
  /\ UNCHANGED cost_call
  /\ \E user \in Users, request \in BatchRequests :
       LET requests == request.requests
           r0 == [IdleReq EXCEPT !.kind = "batch", !.user = user,
                                 !.item_ids = [i \in 1..Len(requests) |-> requests[i].id]]
       IN
       IF BatchSizeError(requests) # "none"
       THEN req' = [req EXCEPT ![s] = Done(r0, ErrorResp(400, BatchSizeError(requests)))]
       ELSE IF ~\E i \in DOMAIN Catalog :
                  Catalog[i].model_id = request.model /\ Catalog[i].is_active
       THEN req' = [req EXCEPT ![s] = Done(r0, ErrorResp(500, "Internal Server Error"))]
       ELSE LET model == Catalog[CHOOSE i \in DOMAIN Catalog :
                                   Catalog[i].model_id = request.model /\ Catalog[i].is_active]
                batch_id == started + 1
                branches == [i \in 1..Len(requests) |->
                               BranchStart(Branch(model, RequestId(requests[i]), i - 1), model)]
            IN  req' = [req EXCEPT ![s] =
                          [r0 EXCEPT !.pc = "gather", !.model = model.id,
                                     !.group = batch_id,
                                     !.branches = branches,
                                     !.finished = DoneAtStart(branches),
                                     !.pending = RowsOfDone(branches, user, 0)]]
  /\ UNCHANGED <<total_spent, spending_limit, ledger, cache, comparisons>>

\* one _process_single_request task resumes after its send_request; the
\* Request row it adds has no column for the batch id
BatchBranchResult(s) ==
  /\ req[s].pc = "gather" /\ req[s].kind = "batch"
  /\ \E i \in DOMAIN req[s].branches, result \in AdapterResults :
       LET r == req[s]
           b == BranchFinish(r.branches[i], CatalogById(r.branches[i].model), result)
       IN  /\ r.branches[i].state = "pending"
           /\ req' = [req EXCEPT ![s].branches[i] = b,
                                 ![s].finished = Append(@, i),
                                 ![s].pending = Append(@, LedgerEntry(r.user, b.model, b.status,
                                                                      b.total_cost_usd, 0))]
  /\ UNCHANGED <<total_spent, spending_limit, ledger, cache, started, cost_call, comparisons>>

\* gather returned: aggregate metrics, commit, response (batch_service 238-265),
\* then the validation of the response against BatchResponse (routes.py 410)
BatchJoin(s) ==
  /\ req[s].pc = "gather" /\ req[s].kind = "batch"
  /\ AllDone(req[s].branches)
  /\ LET r == req[s]
         results == GatherResults(r.branches, r.finished)
         total_cost == SumCosts(results)
     IN  /\ ledger' = ledger \o r.pending
         /\ req' = [req EXCEPT ![s] =
                      Done([r EXCEPT !.pending = << >>],
                           IF BatchResponseValid(results)
                           THEN [NoResp EXCEPT !.status = 200, !.detail = "ok",
                                               !.total_cost_usd = total_cost,
                                               !.results = results,
                                               !.total_requests = Len(r.item_ids),
                                               !.successful = CountStatus(results, "success"),
                                               !.failed = CountStatus(results, "error")]
                           ELSE ErrorResp(500, "Internal Server Error"))]
  /\ UNCHANGED <<total_spent, spending_limit, cache, started, cost_call, comparisons>>

(* ---------------------------- budget endpoints ------------------------- *)
\* 0.000001 USD, the limit of test_set_low_budget
TinyLimit == 100

Limits == {None, 0 - 100, TinyLimit, 150, 400}

\* PUT /v1/budget/limit: 400 for a negative limit, else the limit is stored
set_budget_limit(user) ==
  \E limit_usd \in Limits :
    /\ spending_limit' = IF limit_usd # None /\ limit_usd < 0
                         THEN spending_limit
                         ELSE [spending_limit EXCEPT ![user] = limit_usd]
    /\ UNCHANGED <<total_spent, ledger, cache, req, started, cost_call, comparisons>>

\* POST /v1/budget/reset
reset_budget(user) ==
  /\ total_spent' = [total_spent EXCEPT ![user] = 0]
  /\ UNCHANGED <<spending_limit, ledger, cache, req, started, cost_call, comparisons>>

Next ==
  \/ \E s \in Slots : chat_completion(s)
  \/ \E s \in Slots : ManualResult(s)
  \/ \E s \in Slots : FallbackResult(s)
  \/ \E s \in Slots : compare_models(s)
  \/ \E s \in Slots : CompareBranchResult(s)
  \/ \E s \in Slots : CompareJoin(s)
  \/ \E s \in Slots : batch_process(s)
  \/ \E s \in Slots : BatchBranchResult(s)
  \/ \E s \in Slots : BatchJoin(s)
  \/ \E u \in Users : set_budget_limit(u)
  \/ \E u \in Users : reset_budget(u)

Spec == Init /\ [][Next]_vars

(* ---------------------------- several worker processes ----------------- *)
\* The same handler when the service runs as several worker processes, each
\* request with its own database session: BudgetService.update_spending is a
\* SELECT of the user row followed by an UPDATE with the value computed from
\* it, and the two statements of one process interleave with those of others.

ManualResultWorker(s) == ManualReturn(s, "workers")

FallbackResultWorker(s) == FallbackReturn(s, "workers")

\* budget_service.py 117: user = self.db.query(User)...first()
update_spending_read(s) ==
  /\ req[s].pc = "spend_read"
  /\ req' = [req EXCEPT ![s].pc = "spend_write",
                        ![s].read_spent = total_spent[req[s].user]]
  /\ UNCHANGED <<total_spent, spending_limit, ledger, cache, started, cost_call, comparisons>>

\* budget_service.py 120-121: user.total_spent_usd = read + cost; commit
update_spending_write(s) ==
  /\ req[s].pc = "spend_write"
  /\ total_spent' = [total_spent EXCEPT
                       ![req[s].user] = req[s].read_spent + req[s].resp.total_cost_usd]
  /\ req' = [req EXCEPT ![s].pc = "done"]
  /\ UNCHANGED <<spending_limit, ledger, cache, started, cost_call, comparisons>>

\* the users table when the workers start: callers without and with a limit
InitWorkers ==
  /\ total_spent = [u \in Users |-> 0]
  /\ spending_limit \in [Users -> {None, TinyLimit}]
  /\ ledger = << >>
  /\ cache = {}
  /\ req = [w \in Workers |-> IdleReq]
  /\ started = 0
  /\ comparisons = << >>
  /\ cost_call = NoCall

NextWorkers ==
  \/ \E w \in Workers : chat_completion(w)
  \/ \E w \in Workers : ManualResultWorker(w)
  \/ \E w \in Workers : FallbackResultWorker(w)
  \/ \E w \in Workers : update_spending_read(w)
  \/ \E w \in Workers : update_spending_write(w)

SpecWorkers == InitWorkers /\ [][NextWorkers]_vars

(* ---------------------------- failing commits -------------------------- *)
\* The chat handler over a database session whose commits can raise.
ManualResultCommit(s) == ManualReturn(s, "commit_faults")

FallbackResultCommit(s) == FallbackReturn(s, "commit_faults")

NextCommit ==
  \/ \E s \in Slots : chat_completion(s)
  \/ \E s \in Slots : ManualResultCommit(s)
  \/ \E s \in Slots : FallbackResultCommit(s)

SpecCommit == Init /\ [][NextCommit]_vars

(* ---------------------------- the cost functions on their own ---------- *)
\* token counts and prices (units of 1e-8 USD per 1M tokens) the cost
\* functions are called with: the signatures take any int and any float
TokenCounts == {0 - 1, 0, 1, 8}

PricesPer1M == {0 - 15000000, 0, 13400000, 15000000, 60000000}

CostCalls ==
  [ fn : {"calculate_cost"}, state : {"called"}, messages : { << >> },
    input_tokens : TokenCounts, output_tokens : TokenCounts,
    input_price_per_1m : PricesPer1M, output_price_per_1m : PricesPer1M,
    result : {NoCost} ]
  \cup
  [ fn : {"estimate_cost"}, state : {"called"}, messages : Prompts,
    input_tokens : {0}, output_tokens : TokenCounts,
    input_price_per_1m : PricesPer1M, output_price_per_1m : PricesPer1M,
    result : {NoCost} ]

\* calculate_cost runs to its return statement: it has no other exit
CalculateCostCall ==
  /\ cost_call.fn = "calculate_cost" /\ cost_call.state = "called"
  /\ cost_call' = [cost_call EXCEPT
                     !.state = "returned",
                     !.result = calculate_cost(cost_call.input_tokens,
                                               cost_call.output_tokens,
                                               cost_call.input_price_per_1m,
                                               cost_call.output_price_per_1m)]
  /\ UNCHANGED <<total_spent, spending_limit, ledger, cache, req, started, comparisons>>

\* TokenEstimator.estimate_cost runs to its return statement
EstimateCostCall ==
  /\ cost_call.fn = "estimate_cost" /\ cost_call.state = "called"
  /\ LET estimate == estimate_cost(cost_call.messages, cost_call.input_price_per_1m,
                                   cost_call.output_price_per_1m,
                                   cost_call.output_tokens)
     IN  cost_call' = [cost_call EXCEPT
                         !.state = "returned",
                         !.input_tokens = estimate.estimated_input_tokens,
                         !.result =
                            [ input_cost_usd  |-> estimate.estimated_input_cost_usd,
                              output_cost_usd |-> estimate.estimated_output_cost_usd,
                              total_cost_usd  |-> estimate.estimated_total_cost_usd ]]
  /\ UNCHANGED <<total_spent, spending_limit, ledger, cache, req, started, comparisons>>

InitCost ==
  /\ total_spent = [u \in Users |-> 0]
  /\ spending_limit = [u \in Users |-> None]
  /\ ledger = << >>
  /\ cache = {}
  /\ req = [s \in Slots |-> IdleReq]
  /\ started = 0
  /\ comparisons = << >>
  /\ cost_call \in CostCalls

NextCost ==
  \/ CalculateCostCall
  \/ EstimateCostCall

SpecCost == InitCost /\ [][NextCost]_vars

(* ======================================================================= *)
(* Properties                                                              *)
(* ======================================================================= *)
Last(seq) == seq[Len(seq)]

IsChat(r) == r.kind = "chat"
IsFallback(r) == r.kind = "chat" /\ r.mode = "cost-optimized"
IsManual(r) == r.kind = "chat" /\ r.mode = "manual"

SortedByCost(ranked) ==
  \A i, j \in DOMAIN ranked :
    i < j => ranked[i].estimated_cost <= ranked[j].estimated_cost

SuccessRows(rows) == SelectSeq(rows, LAMBDA e : e.status = "success")

ErrorRowsOf(rows, user, model) ==
  SelectSeq(rows, LAMBDA e : e.status = "error" /\ e.user_id = user /\ e.model_id = model)

\* the attempt of slot s that was in flight returns in this step with outcome kind
AttemptReturns(s, kind) ==
  /\ req[s].pc = "await"
  /\ Len(req'[s].outcomes) = Len(req[s].outcomes) + 1
  /\ Last(req'[s].outcomes) = kind

(* C1: in a cost-optimized request the adapter calls made so far are the    *)
(* first candidates of the ranking, in ranking order (which is ascending in *)
(* estimated cost), at most one call is in flight, only the last call made  *)
(* can have succeeded, and a 200 response names the candidate of that call. *)
C1_FallbackOrder ==
  \A s \in DOMAIN req :
    IsFallback(req[s]) =>
      LET r == req[s] IN
      /\ SortedByCost(r.ranked)
      /\ Len(r.dispatched) <= Len(r.ranked)
      /\ \A i \in DOMAIN r.dispatched : r.dispatched[i] = r.ranked[i].model_db_id
      /\ Len(r.dispatched) = Len(r.outcomes) + (IF r.pc = "await" THEN 1 ELSE 0)
      /\ \A i \in DOMAIN r.outcomes : r.outcomes[i] = "ok" => i = Len(r.dispatched)
      /\ (r.resp.status = 200 <=> (r.outcomes # << >> /\ Last(r.outcomes) = "ok"))
      /\ (r.resp.status = 200 =>
            r.resp.model = CatalogById(Last(r.dispatched)).model_id)

\* a walk A (fail), B (fail), C (success) that answered with C
C1_Witness ==
  \E s \in DOMAIN req :
    /\ IsFallback(req[s]) /\ req[s].pc = "done"
    /\ req[s].outcomes = <<"fail", "fail", "ok">>
    /\ req[s].resp.status = 200
    /\ req[s].resp.model = CatalogById(req[s].ranked[3].model_db_id).model_id

(* C2: when an attempt of a fallback walk returns a failure, one error row  *)
(* for that candidate is added to the ledger.                               *)
C2_FailedAttemptLogged ==
  [][\A s \in DOMAIN req :
       (IsFallback(req[s]) /\ AttemptReturns(s, "fail")) =>
          Len(ErrorRowsOf(ledger', req[s].user, req[s].model))
            = Len(ErrorRowsOf(ledger, req[s].user, req[s].model)) + 1]_vars

(* C3: a failed attempt of a fallback walk writes no success row and leaves *)
(* every total_spent unchanged, and when it was the attempt on the last     *)
(* ranked candidate the request ends with the one aggregate 500 failure.    *)
C3_ExhaustionFails ==
  [][\A s \in DOMAIN req :
       (IsFallback(req[s]) /\ AttemptReturns(s, "fail")) =>
          /\ SuccessRows(ledger') = SuccessRows(ledger)
          /\ total_spent' = total_spent
          /\ (Len(req'[s].outcomes) = Len(req[s].ranked) =>
                /\ req'[s].pc = "done"
                /\ req'[s].resp.status = 500
                /\ req'[s].resp.detail = "All available models failed")]_vars

\* a walk over two candidates that both failed, answered by the aggregate failure
C3_Witness ==
  \E s \in DOMAIN req :
    /\ IsFallback(req[s]) /\ req[s].pc = "done"
    /\ Len(req[s].ranked) = 2
    /\ req[s].outcomes = <<"fail", "fail">>
    /\ req[s].resp.status = 500
    /\ req[s].resp.detail = "All available models failed"

\* estimates check_budget is tried on: some fixed ones and those around the
\* remaining budget of the user
EstimateSamples(u) ==
  {0, 1, 70, 130, 195}
  \cup (IF spending_limit[u] = None THEN {}
        ELSE {x \in { spending_limit[u] - total_spent[u] - 1,
                      spending_limit[u] - total_spent[u],
                      spending_limit[u] - total_spent[u] + 1 } : x >= 0})

(* C4: in every reachable state of the users table, check_budget approves   *)
(* an estimate iff the user has no limit or total_spent + estimate <= limit.*)
C4_CheckBudgetRule ==
  \A u \in Users : \A e \in EstimateSamples(u) :
    check_budget(u, e).approved
      <=> (spending_limit[u] = None \/ total_spent[u] + e <= spending_limit[u])

\* a cost-optimized request admitted under a limit by a user who has spent
C4_Witness ==
  \E s \in DOMAIN req :
    /\ IsFallback(req[s]) /\ req[s].pc = "await"
    /\ req[s].trace = <<"check", "dispatch">>
    /\ spending_limit[req[s].user] # None
    /\ total_spent[req[s].user] > 0
    /\ total_spent[req[s].user] + req[s].checked_cost <= spending_limit[req[s].user]

\* slot s receives a chat request in this step and rejects it with 402
Rejected402(s) ==
  /\ req'[s] # req[s]
  /\ IsChat(req'[s])
  /\ req'[s].resp.status = 402

(* C5 as stated: a 402 rejection carries would_exceed_by_usd equal to       *)
(* (total_spent + estimated cost) - limit.                                  *)
C5_ExactShortfall ==
  [][\A s \in DOMAIN req :
       Rejected402(s) =>
          req'[s].resp.budget.would_exceed_by_usd
            = (total_spent[req'[s].user] + req'[s].checked_cost)
              - spending_limit[req'[s].user]]_vars

(* C5 amended: a request rejected by admission has called no adapter, the   *)
(* step writes no ledger row and changes no total_spent and no limit, the   *)
(* projected total exceeds the limit, and the rejection carries the         *)
(* shortfall rounded to 6 decimal places.                                   *)
C5_RejectionFrame ==
  [][\A s \in DOMAIN req :
       Rejected402(s) =>
          LET u == req'[s].user
              shortfall == (total_spent[u] + req'[s].checked_cost) - spending_limit[u]
          IN  /\ req'[s].pc = "done"
              /\ req'[s].dispatched = << >>
              /\ ledger' = ledger
              /\ total_spent' = total_spent
              /\ spending_limit' = spending_limit
              /\ shortfall > 0
              /\ ~req'[s].resp.budget.approved
              /\ req'[s].resp.budget.would_exceed_by_usd = Round6(shortfall)]_vars

\* a rejected request whose reported shortfall is positive
C5_Witness ==
  \E s \in DOMAIN req :
    /\ IsFallback(req[s]) /\ req[s].pc = "done"
    /\ req[s].resp.status = 402
    /\ req[s].resp.budget.would_exceed_by_usd > 0
    /\ req[s].dispatched = << >>

\* slot s receives a cost-optimized request of a user with the tiny limit
\* in this step, and its admission check is made on a positive estimate
TinyLimitChecked(s) ==
  /\ req'[s] # req[s]
  /\ SlotFree(s)
  /\ IsFallback(req'[s])
  /\ spending_limit[req'[s].user] = TinyLimit
  /\ req'[s].trace # << >> /\ req'[s].trace[1] = "check"
  /\ req'[s].checked_cost > 0

(* C6 as stated: with limit 0.000001 every cost-optimized request checked   *)
(* on a positive estimate is blocked with 402.                              *)
C6_TinyLimitAlwaysBlocks ==
  [][\A s \in DOMAIN req :
       TinyLimitChecked(s) => req'[s].resp.status = 402]_vars

(* C6 amended: with limit 0.000001 a cost-optimized request is blocked with *)
(* 402 iff total_spent + estimate > 0.000001; in particular always when the *)
(* estimate alone exceeds 0.000001.                                         *)
C6_TinyLimitRule ==
  [][\A s \in DOMAIN req :
       TinyLimitChecked(s) =>
          /\ (req'[s].resp.status = 402
                <=> total_spent[req'[s].user] + req'[s].checked_cost > TinyLimit)
          /\ (req'[s].checked_cost > TinyLimit => req'[s].resp.status = 402)]_vars

\* a request blocked under the tiny limit
C6_Witness ==
  \E s \in DOMAIN req :
    /\ IsFallback(req[s]) /\ req[s].pc = "done"
    /\ req[s].resp.status = 402
    /\ req[s].resp.budget.spending_limit_usd = TinyLimit
    /\ req[s].checked_cost > TinyLimit

CountChecks(trace) == Cardinality({i \in DOMAIN trace : trace[i] = "check"})

C8_SpendOncePerSuccess ==
  [][\A s \in DOMAIN req :
       (req'[s] # req[s] /\ IsChat(req'[s])) =>
          IF /\ req'[s].pc = "done"
             /\ req'[s].resp.status = 200
             /\ ~req'[s].resp.cached
          THEN /\ AttemptReturns(s, "ok")
               /\ ledger' = Append(ledger,
                                   LedgerEntry(req[s].user, req[s].model, "success",
                                               req'[s].resp.total_cost_usd, 0))
               /\ total_spent' = [total_spent EXCEPT
                                    ![req[s].user] = @ + req'[s].resp.total_cost_usd]
          ELSE total_spent' = total_spent]_vars

\* a walk that failed once and then succeeded, charged to a user who had spent before
C8_Witness ==
  \E s \in DOMAIN req :
    /\ IsFallback(req[s]) /\ req[s].pc = "done"
    /\ req[s].outcomes = <<"fail", "ok">>
    /\ req[s].resp.status = 200
    /\ req[s].resp.total_cost_usd > 0
    /\ total_spent[req[s].user] > req[s].resp.total_cost_usd

RECURSIVE SumSuccessCosts(_)
SumSuccessCosts(results) ==
  IF results = << >> THEN 0
  ELSE (IF Head(results).status = "success" THEN Head(results).total_cost_usd ELSE 0)
       + SumSuccessCosts(Tail(results))

(* C9: when a compare or batch call returns, the caller's total_spent has   *)
(* grown by the sum of the costs of the group's successful outcomes.        *)
C9_FanOutSpendRecorded ==
  [][\A s \in DOMAIN req :
       (req[s].pc = "gather" /\ req'[s].pc = "done") =>
          total_spent' = [total_spent EXCEPT
                            ![req[s].user] = @ + SumSuccessCosts(req'[s].resp.results)]]_vars

RECURSIVE SumDispatchedCosts(_, _)
SumDispatchedCosts(u, n) ==
  IF n = 0 THEN 0
  ELSE (IF req[n].user = u THEN req[n].resp.total_cost_usd ELSE 0)
       + SumDispatchedCosts(u, n - 1)

(* C10: when every worker has completed one successful dispatch, each       *)
(* user's total_spent is the sum of the costs of the user's dispatches.     *)
C10_NoLostUpdates ==
  (\A w \in DOMAIN req :
     /\ req[w].pc = "done"
     /\ req[w].resp.status = 200
     /\ ~req[w].resp.cached)
  => \A u \in Users : total_spent[u] = SumDispatchedCosts(u, Len(req))

(* ----------------------- cache and manual dispatch ---------------------- *)
\* slot s answers a manual-mode request from the cache in this step
HitReturns(s) ==
  /\ started' = started + 1
  /\ IsManual(req'[s]) /\ req'[s].pc = "done" /\ req'[s].resp.cached
  /\ (req'[s] # req[s] \/ req' = req)

\* slot s takes a manual-mode request up to the return of cache_service.get
GetReturns(s) ==
  /\ started' = started + 1
  /\ IsManual(req'[s]) /\ req'[s].cache_calls = <<"get">>
  /\ (req'[s] # req[s] \/ req' = req)

\* the adapter call of the manual-mode request of slot s returns in this step
ManualAttemptReturns(s) ==
  /\ IsManual(req[s]) /\ req[s].pc = "await"
  /\ Len(req'[s].outcomes) = Len(req[s].outcomes) + 1

EntriesOf(entries, key) == {e \in entries : e.key = key}

PriceOf(model_id) ==
  LET m == Catalog[CHOOSE i \in DOMAIN Catalog : Catalog[i].model_id = model_id]
  IN  m.input_price + m.output_price

(* C11: a manual-mode request answered from the cache adds one ledger row   *)
(* of the caller with cost zero.                                            *)
C11_CacheHitLedgered ==
  [][\A s \in DOMAIN req :
       HitReturns(s) =>
          /\ Len(ledger') = Len(ledger) + 1
          /\ Last(ledger').user_id = req'[s].user
          /\ Last(ledger').total_cost_usd = 0]_vars

(* C12: a manual-mode request answered from the cache calls no adapter,     *)
(* reports input, output and total cost 0 and leaves every total_spent      *)
(* unchanged, under any spending limit of the caller.                       *)
C12_CacheHitFree ==
  [][\A s \in DOMAIN req :
       HitReturns(s) =>
          /\ req'[s].dispatched = << >>
          /\ req'[s].trace = << >>
          /\ req'[s].resp.status = 200
          /\ req'[s].resp.input_cost_usd = 0
          /\ req'[s].resp.output_cost_usd = 0
          /\ req'[s].resp.total_cost_usd = 0
          /\ total_spent' = total_spent
          /\ ledger' = ledger]_vars

\* a cache hit served to a caller who is already over a spending limit
C12_Witness ==
  \E s \in DOMAIN req :
    /\ IsManual(req[s]) /\ req[s].pc = "done" /\ req[s].resp.cached
    /\ req[s].resp.total_cost_usd = 0
    /\ spending_limit[req[s].user] # None
    /\ total_spent[req[s].user] > spending_limit[req[s].user]

(* C13: a cache entry under the key of a manual-mode request was written by *)
(* a request with the same messages, model, temperature and max_tokens, so  *)
(* requests that differ in one of these have different keys.                *)
C13_FingerprintInjective ==
  \A s \in DOMAIN req :
    (IsManual(req[s]) /\ req[s].cache_calls # << >>) =>
      \A e \in EntriesOf(cache, req[s].key) : e.fields = req[s].fields

(* C14: a manual-mode request whose cache backend was unavailable or raised *)
(* (at construction, on get or on set) goes on as on a cache miss: it is    *)
(* dispatched to its model, or refused because the model has no adapter,    *)
(* and it is never answered from the cache.                                 *)
C14_CacheFailsOpen ==
  \A s \in DOMAIN req :
    (IsManual(req[s]) /\ req[s].faults # << >>) =>
      /\ ~req[s].resp.cached
      /\ \/ req[s].trace = <<"dispatch">>
         \/ /\ CatalogById(req[s].model).provider \notin SupportedProviders
            /\ req[s].resp.detail = "Provider not supported"

C17_CacheOnlyManual ==
  [][/\ \A s \in DOMAIN req :
          ~IsManual(req'[s]) =>
             /\ req'[s].cache_calls = << >>
             /\ ~req'[s].resp.cached
             /\ (IsFallback(req'[s]) /\ req'[s].resp.status = 200
                   => req'[s].dispatched # << >>)
     /\ (cache' # cache =>
           \E s \in DOMAIN req :
             /\ IsManual(req[s]) /\ req[s].pc = "await"
             /\ req'[s].cache_calls = <<"get", "set">>
             /\ \A e \in cache' \ cache : e.key = req[s].key)]_vars

\* a cost-optimized request answered by dispatch to a model whose answer is cached
C17_Witness ==
  \E s \in DOMAIN req :
    /\ IsFallback(req[s]) /\ req[s].resp.status = 200
    /\ req[s].dispatched # << >>
    /\ \E e \in cache : e.fields.model_id = req[s].resp.model

(* C18: of two cached answers, the one from the catalog entry with the      *)
(* higher prices has the longer time-to-live.                               *)
C18_TtlByCostClass ==
  \A e1, e2 \in cache :
    PriceOf(e1.fields.model_id) > PriceOf(e2.fields.model_id) => e1.ttl > e2.ttl

(* C19: a manual-mode request calls at most one adapter, that of the named  *)
(* model; when the call fails, one error row of that model is added to the  *)
(* ledger, the request ends with an error, nothing is cached and no         *)
(* total_spent changes.                                                     *)
C19_ManualSingleDispatch ==
  [][\A s \in DOMAIN req :
       /\ (IsManual(req'[s]) =>
             /\ Len(req'[s].dispatched) <= 1
             /\ \A i \in DOMAIN req'[s].dispatched :
                  CatalogById(req'[s].dispatched[i]).model_id = req'[s].fields.model_id)
       /\ ((ManualAttemptReturns(s) /\ Last(req'[s].outcomes) # "ok") =>
             /\ ledger' = Append(ledger, LedgerEntry(req[s].user, req[s].model,
                                                     "error", None, 0))
             /\ req'[s].pc = "done"
             /\ req'[s].resp.status = 500
             /\ cache' = cache
             /\ total_spent' = total_spent)]_vars

(* C20: the i-th result of a compare response is the outcome for the i-th   *)
(* model id of the request's models list.                                   *)
C20_CompareInputOrder ==
  \A s \in DOMAIN req :
    (req[s].kind = "compare" /\ req[s].resp.status = 200) =>
      /\ Len(req[s].resp.results) = Len(req[s].model_ids)
      /\ \A i \in DOMAIN req[s].resp.results :
           req[s].resp.results[i].model_id = req[s].model_ids[i]

(* ----------------------- fan-out, ranking, input errors ----------------- *)
IsCompare(r) == r.kind = "compare"
IsBatch(r) == r.kind = "batch"
IsFanOut(r) == r.kind \in {"compare", "batch"}

\* slot s takes a new request of the kind in this step
Starts(s, kind) ==
  /\ started' = started + 1
  /\ req'[s].kind = kind
  /\ (req'[s] # req[s] \/ req' = req)

\* the gather of the fan-out request of slot s returns in this step
JoinReturns(s) ==
  /\ IsFanOut(req[s]) /\ req[s].pc = "gather" /\ req'[s].pc = "done"

\* task i of the fan-out request of slot s returns from its adapter call in this step
BranchReturns(s, i) ==
  /\ IsFanOut(req[s]) /\ req[s].pc = "gather" /\ req'[s].pc = "gather"
  /\ i \in DOMAIN req[s].branches
  /\ req[s].branches[i].state = "pending"
  /\ req'[s].branches[i].state = "done"

\* number of inputs of a fan-out request
InputCount(r) == IF r.kind = "compare" THEN Len(r.model_ids) ELSE Len(r.item_ids)

RankedOK(ranked, provider_filter, max_cost) ==
  /\ SortedByCost(ranked)
  /\ \A i \in DOMAIN ranked :
       LET m == CatalogById(ranked[i].model_db_id) IN
       /\ m.is_active /\ m.provider_active
       /\ (max_cost # None => ranked[i].estimated_cost <= max_cost)
       /\ (provider_filter # {} => m.provider \in provider_filter)

(* C21: in the response of a batch call the result at position i has index *)
(* i (counted from 0) and the id given with the i-th input item, whatever  *)
(* the order in which the calls finished and whatever their outcomes.      *)
C21_BatchPositions ==
  \A s \in DOMAIN req :
    (IsBatch(req[s]) /\ req[s].resp.status = 200) =>
      /\ Len(req[s].resp.results) = Len(req[s].item_ids)
      /\ \A i \in DOMAIN req[s].resp.results :
           /\ req[s].resp.results[i].index = i - 1
           /\ req[s].resp.results[i].id = req[s].item_ids[i]

\* a batch whose second call finished first, one call failing and one succeeding
C21_Witness ==
  \E s \in DOMAIN req :
    /\ IsBatch(req[s]) /\ req[s].resp.status = 200
    /\ req[s].finished = <<2, 1>>
    /\ req[s].resp.results[1].status = "error"
    /\ req[s].resp.results[2].status = "success"
    /\ req[s].resp.results[2].id = "r1"

(* C22: every result a batch call produced has a correlation id, the given *)
(* one when the item had one and a generated one otherwise, and the call   *)
(* is answered with these results.                                         *)
C22_BatchIdsPresent ==
  \A s \in DOMAIN req :
    (IsBatch(req[s]) /\ req[s].pc = "done" /\ req[s].branches # << >>) =>
      /\ \A i \in DOMAIN req[s].branches :
           /\ req[s].branches[i].id # "none"
           /\ (req[s].item_ids[i] # "none" =>
                 req[s].branches[i].id = req[s].item_ids[i])
      /\ req[s].resp.status = 200

(* C23: a compare request with fewer than 2 or more than 10 models and a   *)
(* batch request with 0 or more than 100 items ends with 400 in the step   *)
(* that receives it: no task is created, no adapter called, and the ledger,*)
(* the comparisons and every total_spent stay as they are.                 *)
C23_GroupSizeRejected ==
  [][\A s \in DOMAIN req :
       ( \/ /\ Starts(s, "compare")
            /\ (Len(req'[s].model_ids) < 2 \/ Len(req'[s].model_ids) > MaxCompareModels)
         \/ /\ Starts(s, "batch")
            /\ (Len(req'[s].item_ids) = 0 \/ Len(req'[s].item_ids) > MaxBatchRequests) ) =>
          /\ req'[s].pc = "done"
          /\ req'[s].resp.status = 400
          /\ req'[s].branches = << >>
          /\ req'[s].pending = << >>
          /\ req'[s].dispatched = << >>
          /\ ledger' = ledger
          /\ comparisons' = comparisons
          /\ total_spent' = total_spent]_vars

\* a compare request with 11 models rejected after earlier requests were served
C23_Witness ==
  \E s \in DOMAIN req :
    /\ IsCompare(req[s]) /\ req[s].pc = "done"
    /\ Len(req[s].model_ids) = MaxCompareModels + 1
    /\ req[s].resp.status = 400
    /\ req[s].resp.detail = "Maximum 10 models per comparison"
    /\ ledger # << >>

(* C24: when the adapter call of a fan-out task fails (returns a failure   *)
(* outcome or raises), the task's outcome has status error with an error   *)
(* description, its ledger row has status error, and the sibling tasks are *)
(* left as they are.                                                       *)
C24_FanOutFailureReported ==
  [][\A s \in DOMAIN req : \A i \in DOMAIN req[s].branches :
       (BranchReturns(s, i) /\ req'[s].branches[i].outcome \in {"fail", "raise"}) =>
          /\ req'[s].branches[i].status = "error"
          /\ req'[s].branches[i].error_message # "none"
          /\ Last(req'[s].pending).status = "error"
          /\ \A j \in DOMAIN req[s].branches :
               j # i => req'[s].branches[j] = req[s].branches[j]]_vars

(* C25: when a compare or batch call returns, one ledger row per task has  *)
(* been added and each of these rows carries the identifier of the group.  *)
C25_RowsCarryGroupId ==
  [][\A s \in DOMAIN req :
       JoinReturns(s) =>
          /\ Len(ledger') = Len(ledger) + Len(req[s].branches)
          /\ SubSeq(ledger', 1, Len(ledger)) = ledger
          /\ \A k \in (Len(ledger) + 1)..Len(ledger') :
               /\ ledger'[k].user_id = req[s].user
               /\ ledger'[k].group = req[s].group]_vars

(* C26: the total cost a compare call returns, and stores on its           *)
(* comparison record, is the sum of the costs of its outcomes with status  *)
(* success.                                                                *)
C26_CompareTotalCost ==
  [][\A s \in DOMAIN req :
       (JoinReturns(s) /\ IsCompare(req[s])) =>
          /\ req'[s].resp.total_cost_usd = SumSuccessCosts(req'[s].resp.results)
          /\ Len(comparisons') = Len(comparisons) + 1
          /\ Last(comparisons').id = req[s].group
          /\ Last(comparisons').total_cost_usd = req'[s].resp.total_cost_usd]_vars

\* a comparison with one failed and one successful outcome, the total being the latter's cost
C26_Witness ==
  \E s \in DOMAIN req :
    /\ IsCompare(req[s]) /\ req[s].resp.status = 200
    /\ \E i, j \in DOMAIN req[s].resp.results :
         /\ req[s].resp.results[i].status = "error"
         /\ req[s].resp.results[j].status = "success"
         /\ req[s].resp.results[j].total_cost_usd > 0
         /\ req[s].resp.total_cost_usd = req[s].resp.results[j].total_cost_usd
    /\ comparisons # << >>
    /\ Last(comparisons).total_cost_usd = req[s].resp.total_cost_usd

(* C27: a compare or batch call has answered only when every one of its    *)
(* tasks has finished; its answer has one outcome per input, and for a     *)
(* batch successful + failed = total_requests = number of input items.     *)
C27_JoinAll ==
  \A s \in DOMAIN req :
    IsFanOut(req[s]) =>
      /\ (req[s].pc = "gather" => req[s].resp.status = 0)
      /\ ((req[s].pc = "done" /\ req[s].branches # << >>) =>
            \A i \in DOMAIN req[s].branches : req[s].branches[i].state = "done")
      /\ (req[s].resp.status = 200 =>
            /\ Len(req[s].resp.results) = InputCount(req[s])
            /\ \A i \in DOMAIN req[s].resp.results :
                 req[s].resp.results[i].state = "done"
            /\ (IsBatch(req[s]) =>
                  /\ req[s].resp.total_requests = Len(req[s].item_ids)
                  /\ req[s].resp.successful + req[s].resp.failed
                       = req[s].resp.total_requests))

\* a batch of two answered with one success and one failure
C27_Witness ==
  \E s \in DOMAIN req :
    /\ IsBatch(req[s]) /\ req[s].resp.status = 200
    /\ req[s].resp.total_requests = 2
    /\ req[s].resp.successful = 1
    /\ req[s].resp.failed = 1

(* C28: for every request and constraint set get_ranked_models returns a   *)
(* sequence sorted non-decreasing by estimated cost whose elements are     *)
(* active entries of active providers, within max_cost when one is given   *)
(* and of a provider of the filter when one is given; the candidates a     *)
(* cost-optimized request walks are such a sequence.                       *)
C28_RankingSound ==
  /\ \A m \in Prompts, e \in ExpectedOutputTokens,
        f \in ProviderFilters, c \in MaxCosts :
       RankedOK(get_ranked_models(m, e, f, c), f, c)
  /\ \A s \in DOMAIN req :
       IsFallback(req[s]) =>
         /\ RankedOK(req[s].ranked, {}, None)
         /\ \A i \in DOMAIN req[s].dispatched :
              \E k \in DOMAIN req[s].ranked :
                req[s].ranked[k].model_db_id = req[s].dispatched[i]

\* a walk under max_cost that failed on both entries within the bound and
\* did not go on to the two entries over it
C28_Witness ==
  \E s \in DOMAIN req :
    /\ IsFallback(req[s]) /\ req[s].pc = "done"
    /\ req[s].ranked = get_ranked_models(<< [role |-> "user", content |-> "Hello"] >>,
                                         1, {}, 200)
    /\ Len(req[s].ranked) = 2
    /\ Len(get_ranked_models(<< [role |-> "user", content |-> "Hello"] >>,
                             1, {}, None)) = 4
    /\ Len(req[s].dispatched) = 2
    /\ req[s].resp.status = 500

(* C29: a cost-optimized request whose constraints leave no candidate ends *)
(* in the step that receives it with the no-candidate error 400: no        *)
(* adapter is called, and the ledger and every total_spent are unchanged.  *)
C29_NoCandidateRejected ==
  [][\A s \in DOMAIN req :
       (Starts(s, "chat") /\ IsFallback(req'[s]) /\ req'[s].no_candidate) =>
          /\ req'[s].pc = "done"
          /\ req'[s].resp.status = 400
          /\ req'[s].resp.detail = "No models available matching constraints"
          /\ req'[s].dispatched = << >>
          /\ ledger' = ledger
          /\ total_spent' = total_spent]_vars

(* C30: a manual-mode request that names no model ends in the step that    *)
(* receives it with 400 "model is required": no cache call, no admission   *)
(* check and no adapter call is made, and the ledger, the cache, every     *)
(* total_spent and every spending_limit are unchanged.                     *)
C30_MissingModelRejected ==
  [][\A s \in DOMAIN req :
       (Starts(s, "chat") /\ IsManual(req'[s]) /\ req'[s].fields.model_id = "none") =>
          /\ req'[s].pc = "done"
          /\ req'[s].resp.status = 400
          /\ req'[s].resp.detail = "model is required"
          /\ req'[s].cache_calls = << >>
          /\ req'[s].faults = << >>
          /\ req'[s].trace = << >>
          /\ req'[s].dispatched = << >>
          /\ ledger' = ledger
          /\ cache' = cache
          /\ total_spent' = total_spent
          /\ spending_limit' = spending_limit]_vars

\* a manual request without model rejected while the cache and the ledger hold entries
C30_Witness ==
  \E s \in DOMAIN req :
    /\ IsManual(req[s]) /\ req[s].pc = "done"
    /\ req[s].fields.model_id = "none"
    /\ req[s].resp.status = 400
    /\ req[s].resp.detail = "model is required"
    /\ cache # {}
    /\ ledger # << >>

(* ----------------------- cost functions, budget, faults ----------------- *)
\* a call of a cost function has returned a cost value
CostReturned == cost_call.state = "returned"

\* token counts that are not negative and prices that are positive
ValidCostInput ==
  /\ cost_call.input_tokens >= 0 /\ cost_call.output_tokens >= 0
  /\ cost_call.input_price_per_1m > 0 /\ cost_call.output_price_per_1m > 0

(* C33: the total a cost computation returns for valid input is the sum of *)
(* its input cost and its output cost, each rounded to 8 decimals, and the *)
(* three values are not negative.                                          *)
C33_TotalIsSumOfRounded ==
  (CostReturned /\ ValidCostInput) =>
    /\ cost_call.result.total_cost_usd
         = cost_call.result.input_cost_usd + cost_call.result.output_cost_usd
    /\ cost_call.result.input_cost_usd >= 0
    /\ cost_call.result.output_cost_usd >= 0
    /\ cost_call.result.total_cost_usd >= 0

(* C34: a cost computation called with a negative token count or with a    *)
(* price that is zero or negative ends with an error and returns no cost.  *)
C34_InvalidInputRejected ==
  (cost_call.state \in {"returned", "raised"} /\ ~ValidCostInput) =>
    cost_call.state = "raised"

\* no handler of a request moves in this step
NoRequestStep == req' = req /\ started' = started

(* C35: total_spent is never negative; a step of a request handler never   *)
(* lowers it and leaves the limit alone; reset-spend sets total_spent to 0 *)
(* and leaves the limit alone; set-limit leaves total_spent alone and      *)
(* never stores a negative limit.                                          *)
C35_SpendNeverNegative ==
  [][\A u \in Users :
       /\ total_spent[u] >= 0 /\ total_spent'[u] >= 0
       /\ (spending_limit'[u] = None \/ spending_limit'[u] >= 0)
       /\ (~NoRequestStep =>
             /\ total_spent'[u] >= total_spent[u]
             /\ spending_limit'[u] = spending_limit[u])
       /\ ((NoRequestStep /\ total_spent'[u] # total_spent[u]) =>
             /\ total_spent'[u] = 0
             /\ spending_limit' = spending_limit)
       /\ ((NoRequestStep /\ spending_limit'[u] # spending_limit[u]) =>
             /\ total_spent' = total_spent
             /\ spending_limit'[u] \in Limits)]_vars

\* a caller with a limit whose spend of a served chat request was reset to 0
C35_Witness ==
  \E s \in DOMAIN req :
    /\ IsChat(req[s]) /\ req[s].resp.status = 200
    /\ req[s].resp.total_cost_usd > 0
    /\ total_spent[req[s].user] = 0
    /\ spending_limit[req[s].user] = 400

(* C36: the estimate a cost-optimized request passed to check_budget is    *)
(* the estimate of the head of its ranking, the candidate it dispatches    *)
(* first, and a request whose constraints leave no candidate is never      *)
(* answered with the budget rejection 402.                                 *)
C36_AdmissionOnRankingHead ==
  \A s \in DOMAIN req :
    (IsFallback(req[s]) /\ req[s].trace # << >> /\ Head(req[s].trace) = "check") =>
      /\ (req[s].ranked # << >> =>
            /\ req[s].checked_cost = req[s].ranked[1].estimated_cost
            /\ req[s].dispatched[1] = req[s].ranked[1].model_db_id)
      /\ (req[s].no_candidate => req[s].resp.status # 402)

(* C37: every entry of the cache holds an outcome with success true, with  *)
(* content and usage, written by a request for the model id in its key, and *)
(* a response served from the cache has content and usage.                 *)
C37_OnlySuccessCached ==
  /\ \A e \in cache :
       LET stored == JsonLoads(e.data) IN
       /\ stored.success
       /\ stored.content # "none"
       /\ stored.input_tokens # None /\ stored.output_tokens # None
       /\ e.key[2] = e.fields.model_id
  /\ \A s \in DOMAIN req :
       (IsManual(req[s]) /\ req[s].resp.cached) =>
          /\ req[s].resp.status = 200
          /\ req[s].resp.content # "none"
          /\ req[s].resp.prompt_tokens # None
          /\ req[s].resp.completion_tokens # None

\* a failed dispatch that left no entry under its key, beside the entry of a served request
C37_Witness ==
  \E s \in DOMAIN req :
    /\ IsManual(req[s]) /\ req[s].pc = "done"
    /\ req[s].enabled
    /\ req[s].outcomes = <<"fail">>
    /\ cache # {}
    /\ \A e \in cache : e.key # req[s].key

\* the candidate the walk of request r is at
Serving(r) == r.ranked[r.idx]

(* C38: when the first request a caller with a limit issues is a           *)
(* cost-optimized one that was admitted under the limit and is served at   *)
(* an actual cost of at most the estimate of the candidate that served it, *)
(* the caller's total_spent is at most the limit afterwards.               *)
C38_SpendWithinLimit ==
  [][\A s \in DOMAIN req :
       LET u == req[s].user IN
       ( /\ IsFallback(req[s]) /\ AttemptReturns(s, "ok")
         /\ req'[s].resp.status = 200
         /\ started = 1
         /\ req[s].budget_check.reason = "Within budget"
         /\ req[s].budget_check.spending_limit_usd = spending_limit[u]
         /\ total_spent[u] + req[s].checked_cost <= spending_limit[u]
         /\ req'[s].resp.total_cost_usd <= Serving(req[s]).estimated_cost ) =>
          total_spent'[u] <= spending_limit'[u]]_vars

(* C39: two cost-optimized requests of one caller that are in flight at    *)
(* the same time, both admitted under the caller's limit, have estimates   *)
(* that fit into the limit together with total_spent.                      *)
C39_NoDoubleAdmission ==
  \A w1, w2 \in DOMAIN req :
    ( /\ w1 # w2
      /\ IsFallback(req[w1]) /\ IsFallback(req[w2])
      /\ req[w1].user = req[w2].user
      /\ req[w1].pc = "await" /\ req[w2].pc = "await"
      /\ req[w1].budget_check.reason = "Within budget"
      /\ req[w2].budget_check.reason = "Within budget" ) =>
       total_spent[req[w1].user] + req[w1].checked_cost + req[w2].checked_cost
         <= spending_limit[req[w1].user]

(* C40: the estimated_cost_usd of a cost-optimized response is the         *)
(* estimate of the catalog entry the response names as used, and           *)
(* models_considered is the length of the ranking.                         *)
C40_EstimateOfUsedEntry ==
  \A s \in DOMAIN req :
    (IsFallback(req[s]) /\ req[s].resp.status = 200) =>
      /\ req[s].resp.model = CatalogById(Serving(req[s]).model_db_id).model_id
      /\ req[s].resp.estimated_cost_usd = Serving(req[s]).estimated_cost
      /\ req[s].resp.models_considered = Len(req[s].ranked)

(* C32: when the adapter of a candidate of a fallback walk cannot be used   *)
(* (the provider has none, or constructing or calling it raises), an error *)
(* row for the candidate is written and the walk goes on with the next     *)
(* ranked candidate; in a fan-out group such a task ends with status error *)
(* and the other tasks are left as they are.                               *)
C32_NoAdapterIsolated ==
  [][\A s \in DOMAIN req :
       /\ (IsFallback(req[s]) /\ AttemptReturns(s, "raise")) =>
             /\ Len(ErrorRowsOf(ledger', req[s].user, req[s].model))
                  = Len(ErrorRowsOf(ledger, req[s].user, req[s].model)) + 1
             /\ (req[s].idx < Len(req[s].ranked) =>
                   /\ req'[s].pc = "await"
                   /\ req'[s].idx = req[s].idx + 1)
       /\ (IsFallback(req'[s]) /\ req'[s] # req[s]) =>
             req'[s].resp.detail # "Provider not supported"
       /\ \A i \in DOMAIN req[s].branches :
            (BranchReturns(s, i) /\ req'[s].branches[i].outcome = "raise") =>
               /\ req'[s].branches[i].status = "error"
               /\ \A j \in DOMAIN req[s].branches :
                    j # i => req'[s].branches[j] = req[s].branches[j]]_vars

(* C31: when the adapter call of a chat request returns a success outcome, *)
(* the request is answered 200 with the generated content, whatever the    *)
(* commits of the request row and of the spend update do.                  *)
C31_SuccessSurvivesCommitFailure ==
  [][\A s \in DOMAIN req :
       (IsChat(req[s]) /\ AttemptReturns(s, "ok")) =>
          /\ req'[s].pc = "done"
          /\ req'[s].resp.status = 200
          /\ req'[s].resp.content = "text"]_vars

====
